---- MODULE Spec2Model ----
(***************************************************************************)
(* Model of src/backend_gemini.py: a Flask gateway that validates JSON     *)
(* requests, builds a prompt, calls the Gemini text-generation provider    *)
(* and/or reads the Firestore collection 'sundai_projects', and answers    *)
(* with a JSON envelope.                                                   *)
(*                                                                         *)
(* Conventions                                                             *)
(*  - A Python str that the code inspects (startswith, strip, join) is a   *)
(*    sequence of lexemes; the lexeme "Error" stands for the five          *)
(*    characters E,r,r,o,r and " " for one whitespace character.           *)
(*  - A JSON field value whose content is never inspected is abstracted to *)
(*    its Python type/truthiness class (see Values below).                 *)
(*  - A Python float is an IEEE-754 binary64: a binary exponent and the    *)
(*    53 bits of its significand; literals and sums are rounded to nearest *)
(*    (ties to even), as the interpreter does.                             *)
(*  - One worker: a request is handled in one step (pc "idle" ->           *)
(*    "responded"), then the framework delivers the response (Deliver).    *)
(***************************************************************************)
EXTENDS Integers, Sequences, FiniteSets, TLC

\* ------------------------------------------------------------------ bounds
MaxTextLen == 2     \* lexemes in a text returned by the provider
MaxDocs == 3        \* documents the store iterates for one request
MaxApps == 2        \* store applications ever initialised (startup + reconfigurations)

\* ------------------------------------------------------- program constants
(* Python floats.  A positive binary64 is [exp, man]: man is the 53-bit      *)
(* significand, most significant bit first (always 1), and the value is      *)
(* 1.man[2..53] * 2^exp.                                                     *)
Precision == 53
Zeros(n) == [i \in 1..n |-> 0]

\* what is left of r/d (0 <= r < d) after its first q base-256 digits
RECURSIVE RemAfterBytes(_, _, _)
RemAfterBytes(r, d, q) == IF q = 0 THEN r ELSE (256 * RemAfterBytes(r, d, q - 1)) % d
\* ... and after its first k binary digits: (r * 2^k) mod d
RemAfter(r, d, k) == (2 ^ (k % 8) * RemAfterBytes(r, d, k \div 8)) % d
\* the first k bits of the binary expansion of r/d
BitsOf(r, d, k) == [i \in 1..k |-> (2 * RemAfter(r, d, i - 1)) \div d]
\* zero bits of r/d (0 < r < d) between the binary point and its first 1
LeadingZeros(r, d) == CHOOSE z \in 0..d : BitsOf(r, d, z + 1) = Zeros(z) \o <<1>>

\* the carry into bit i of x + y + c (bit sequences of equal length): some
\* later bit generates a carry and every bit in between passes it on
CarryInto(x, y, i, c) ==
    \/ \E j \in (i + 1)..Len(x) :
          /\ x[j] + y[j] = 2
          /\ \A k \in (i + 1)..(j - 1) : x[k] + y[k] = 1
    \/ c = 1 /\ \A k \in (i + 1)..Len(x) : x[k] + y[k] = 1
\* x + y + c; a carry out of the first bit lengthens the result by one
AddBits(x, y, c) ==
    (IF CarryInto(x, y, 0, c) THEN <<1>> ELSE <<>>)
    \o [i \in 1..Len(x) |-> (x[i] + y[i] + (IF CarryInto(x, y, i, c) THEN 1 ELSE 0)) % 2]
Inc(x) == AddBits(x, Zeros(Len(x)), 1)

\* round half to even: bits has Precision bits, `more` compares what was cut
\* off with half a unit in the last place ("less", "half", "more")
RoundEven(exp, bits, more) ==
    LET up == more = "more" \/ (more = "half" /\ bits[Precision] = 1)
        inc == Inc(bits)
    IN  IF ~up THEN [exp |-> exp, man |-> bits]
        ELSE IF Len(inc) = Precision THEN [exp |-> exp, man |-> inc]
        ELSE [exp |-> exp + 1, man |-> SubSeq(inc, 1, Precision)]

\* the float a decimal literal n/d denotes (0 < n < d): the nearest binary64
Float(n, d) ==
    LET z == LeadingZeros(n, d)
        r == RemAfter(n, d, z + Precision)
    IN  RoundEven(-(z + 1), SubSeq(BitsOf(n, d, z + Precision), z + 1, z + Precision),
                  IF 2 * r > d THEN "more" ELSE IF 2 * r = d THEN "half" ELSE "less")

\* how a cut-off tail of bits compares with half a unit in the last place
CutOff(bits) ==
    IF bits = <<>> \/ bits[1] = 0 THEN "less"
    ELSE IF \E i \in 2..Len(bits) : bits[i] = 1 THEN "more" ELSE "half"

\* a + b on positive floats with a.exp >= b.exp
FAddOrdered(a, b) ==
    LET shift == a.exp - b.exp
        sum == AddBits(a.man \o Zeros(shift), Zeros(shift) \o b.man, 0)
        carry == Len(sum) - (Precision + shift)
    IN  RoundEven(a.exp + carry, SubSeq(sum, 1, Precision),
                  CutOff(SubSeq(sum, Precision + 1, Len(sum))))
FAdd(a, b) == IF a.exp >= b.exp THEN FAddOrdered(a, b) ELSE FAddOrdered(b, a)

TEMPERATURE == Float(7, 10)
MAX_TOKENS == 1024
MODEL_NAME == "models/gemini-1.5-pro"
COLLECTION == "sundai_projects"

VARIABLES
    GEMINI_API_KEY,              \* module global, read once from the environment
    sdk,                         \* TRUE iff `import firebase_admin` succeeded at startup
    apps,                        \* firebase_admin._apps: 0 = empty, n = the n-th app is registered
    appSeq,                      \* number of apps initialised so far
    db,                          \* module global db: 0 = None, n = client of the n-th app
    firebase_connection_method,  \* module global label
    pc,                          \* "idle" | "responded"
    req,                         \* the request being answered
    resp,                        \* the response the handler returned (or the escaped exception)
    calls,                       \* outbound calls made while handling req, in order
    threads,                     \* requests handled concurrently: thread -> its position
    boot                         \* the start-up block: its position, what it read, its locals

config == <<GEMINI_API_KEY, sdk, apps, appSeq, db, firebase_connection_method>>
vars == <<GEMINI_API_KEY, sdk, apps, appSeq, db, firebase_connection_method,
          pc, req, resp, calls, threads, boot>>

\* ------------------------------------------------------------ Python str
RECURSIVE SeqsUpTo(_, _)
SeqsUpTo(S, n) ==
    IF n = 0 THEN {<<>>}
    ELSE LET shorter == SeqsUpTo(S, n - 1)
         IN  shorter \cup {Append(s, x) : s \in {t \in shorter : Len(t) = n - 1}, x \in S}

Whitespace == {" "}

\* str.startswith(p)
StartsWith(s, p) == Len(s) >= Len(p) /\ SubSeq(s, 1, Len(p)) = p

RECURSIVE LStrip(_)
LStrip(s) == IF s # <<>> /\ Head(s) \in Whitespace THEN LStrip(Tail(s)) ELSE s

RECURSIVE RStrip(_)
RStrip(s) ==
    IF s # <<>> /\ s[Len(s)] \in Whitespace THEN RStrip(SubSeq(s, 1, Len(s) - 1)) ELSE s

\* str.strip()
Strip(s) == RStrip(LStrip(s))

\* The prefix every handler tests its generation function's return value for.
ErrorPrefix == <<"Error">>

\* ------------------------------------------------------- JSON field values
(* A field of a JSON object is "absent" or carries a value of one of these   *)
(* classes: "null"; "zero" (0 / false); "number" (non-zero / true);          *)
(* "emptyarray"; "array" (non-empty); "object"; or a str: "" (empty),        *)
(* " " (blank), or any other label (a non-blank str with that content).      *)
Absent == "absent"
NonStr == {"null", "zero", "number", "emptyarray", "array", "object"}
IsStr(v) == v \notin NonStr \cup {Absent}
\* Python truthiness of a present value
PyTruthy(v) == v \notin {"null", "zero", "emptyarray", ""}
\* v[:50] raises TypeError unless v is a str or a list
Sliceable(v) == IsStr(v) \/ v \in {"emptyarray", "array"}
\* v.strip() is the empty str
Blank(v) == v \in {"", " "}

\* ------------------------------------------------------- JSON request body
(* kind: "notjson" (request.is_json is False), "null", "number", "string",   *)
(* "array", "object".  For an object, val maps each scalar field of interest *)
(* to its value (or Absent), lists maps each list-valued field to its value, *)
(* and other says whether the object has further keys.  For a                *)
(* string or array, has is the set of field names f with `f in data` True    *)
(* (substring / element) and nonempty its truthiness; for a number, nonempty *)
(* says whether it is non-zero.                                              *)
ListVal(kind, items) == [kind |-> kind, items |-> items]
NoLists == [f \in {} |-> ListVal("absent", <<>>)]

Body(kind, has, nonempty, val, other, lists) ==
    [kind |-> kind, has |-> has, nonempty |-> nonempty, val |-> val, other |-> other,
     lists |-> lists]

NoVal(F) == [f \in F |-> Absent]

NonObjectBodies(F) ==
    {Body("notjson", {}, FALSE, NoVal(F), FALSE, NoLists),
     Body("null", {}, FALSE, NoVal(F), FALSE, NoLists)}
    \cup {Body("number", {}, n, NoVal(F), FALSE, NoLists) : n \in BOOLEAN}
    \cup {Body(k, {}, n, NoVal(F), FALSE, NoLists) : k \in {"string", "array"}, n \in BOOLEAN}
    \cup {Body(k, F, TRUE, NoVal(F), FALSE, NoLists) : k \in {"string", "array"}}

ObjectBody(val) == Body("object", {}, FALSE, val, FALSE, NoLists)

\* `x in data` / `x not in data` raise TypeError on None and on numbers
Container(b) == b.kind \in {"string", "array", "object"}
\* `f in data`
Has(b, f) == IF b.kind = "object" THEN b.val[f] # Absent ELSE f \in b.has
\* bool(data)
BodyTruthy(b) ==
    CASE b.kind = "object" ->
            \/ b.other
            \/ \E f \in DOMAIN b.val : b.val[f] # Absent
            \/ \E f \in DOMAIN b.lists : b.lists[f].kind # "absent"
      [] b.kind \in {"null", "notjson"} -> FALSE
      [] OTHER -> b.nonempty

\* ---------------------------------------------------------------- responses
(* What the HTTP framework receives from a handler: a JSON body with a       *)
(* status, or (escaped) an exception the handler did not catch.              *)
NoResp ==
    [escaped |-> FALSE, exc |-> "", status |-> 0, success |-> "absent",
     hasError |-> FALSE, error |-> <<>>, hasText |-> FALSE, text |-> <<>>,
     projects |-> <<>>, count |-> -1, info |-> "absent"]

Raise(exc) == [NoResp EXCEPT !.escaped = TRUE, !.exc = exc]
JsonError(status, msg) == [NoResp EXCEPT !.status = status, !.hasError = TRUE, !.error = msg]
JsonText(text) == [NoResp EXCEPT !.status = 200, !.hasText = TRUE, !.text = text]

\* ------------------------------------------------------------------ provider
(* Outcome of model.generate_content(...) followed by response.text:         *)
(* "raise" (the call raises), "notext" (the call returns and response.text   *)
(* raises because there is no text part), or "text" with the returned str.   *)
TextAlphabet == {"Error", " ", "ok"}
ProviderTexts == SeqsUpTo(TextAlphabet, MaxTextLen)
ProviderOutcomes ==
    {[kind |-> "raise", text |-> <<>>], [kind |-> "notext", text |-> <<>>]}
    \cup {[kind |-> "text", text |-> t] : t \in ProviderTexts}
NotCalled == [kind |-> "notcalled", text |-> <<>>]

KeyTruthy == GEMINI_API_KEY \notin {"None", ""}
KeyNotConfigured == <<"Error", ": Gemini API key is not configured">>

ProviderCall(fn, temperature, prompt) ==
    [to |-> "provider", fn |-> fn, model |-> MODEL_NAME, temperature |-> temperature,
     max_output_tokens |-> MAX_TOKENS, prompt |-> prompt]

\* generate_content repeated once after a failure
Generate_RetryOnce(fn, temperature, prompt, failure, o) ==
    [ret |-> IF o.kind = "text" THEN o.text ELSE <<"Error", failure, o.kind>>,
     calls |-> IF o.kind = "text"
               THEN <<ProviderCall(fn, temperature, prompt)>>
               ELSE <<ProviderCall(fn, temperature, prompt),
                      ProviderCall(fn, temperature, prompt)>>]

\* model.generate_content(...); return response.text  /  except Exception as e
Generate(fn, temperature, prompt, failure, o) ==
    [ret |-> IF o.kind = "text" THEN o.text ELSE <<"Error", failure, o.kind>>,
     calls |-> <<ProviderCall(fn, temperature, prompt)>>]

Returns(text) == [ret |-> text, calls |-> <<>>]

\* generate_post without its credential check
generate_post_NoKeyCheck(context, o) ==
    Generate("generate_post", TEMPERATURE,
             [form |-> "LINKEDIN POST", context |-> context],
             " generating LinkedIn post: ", o)

generate_post(context, o) ==
    IF ~KeyTruthy THEN Returns(KeyNotConfigured)
    ELSE Generate("generate_post", TEMPERATURE,
                  [form |-> "LINKEDIN POST", context |-> context],
                  " generating LinkedIn post: ", o)

\* temperature=TEMPERATURE + 0.2
RaisedTemperature == FAdd(TEMPERATURE, Float(2, 10))

\* regenerate_post calling the provider with generate_post's temperature
regenerate_post_SameTemperature(context, o) ==
    IF ~KeyTruthy THEN Returns(KeyNotConfigured)
    ELSE Generate("regenerate_post", TEMPERATURE,
                  [form |-> "NEW LINKEDIN POST", context |-> context],
                  " regenerating LinkedIn post: ", o)

regenerate_post(context, o) ==
    IF ~KeyTruthy THEN Returns(KeyNotConfigured)
    ELSE Generate("regenerate_post", RaisedTemperature,
                  [form |-> "NEW LINKEDIN POST", context |-> context],
                  " regenerating LinkedIn post: ", o)

modify_post(post, action, o) ==
    IF ~KeyTruthy THEN Returns(KeyNotConfigured)
    ELSE IF action = "reduce"
    THEN Generate("modify_post", TEMPERATURE,
                  [form |-> "SHORTER LINKEDIN POST", post |-> post],
                  " modifying LinkedIn post: ", o)
    ELSE IF action = "elaborate"
    THEN Generate("modify_post", TEMPERATURE,
                  [form |-> "EXPANDED LINKEDIN POST", post |-> post],
                  " modifying LinkedIn post: ", o)
    ELSE Returns(<<"Invalid action: ", action>>)

\* `x and x.strip()`: "raise" when x is truthy and not a str (no .strip)
NonBlank(v) ==
    IF v = Absent \/ ~PyTruthy(v) THEN "false"
    ELSE IF ~IsStr(v) THEN "raise"
    ELSE IF Blank(v) THEN "false" ELSE "true"

\* generate_comment choosing the refinement prompt whenever refinement instructions are given
generate_comment_RefinesOnInstructions(post_text, post_author, refinement, current_comment, o) ==
    IF ~KeyTruthy THEN Returns(KeyNotConfigured)
    ELSE IF NonBlank(current_comment) = "raise" \/ NonBlank(refinement) = "raise"
    THEN Returns(<<"Error", " generating LinkedIn comment: ", "AttributeError">>)
    ELSE Generate("generate_comment", TEMPERATURE,
                  [form |-> IF NonBlank(current_comment) = "true" \/ NonBlank(refinement) = "true"
                            THEN "Refine the current comment"
                            ELSE "Write a single comment, include author's name",
                   author |-> post_author, content |-> post_text,
                   current_comment |-> NonBlank(current_comment) = "true",
                   refinement |-> NonBlank(refinement) = "true"],
                  " generating LinkedIn comment: ", o)

generate_comment(post_text, post_author, refinement, current_comment, o) ==
    IF ~KeyTruthy THEN Returns(KeyNotConfigured)
    ELSE IF NonBlank(current_comment) = "raise" \/ NonBlank(refinement) = "raise"
    THEN Returns(<<"Error", " generating LinkedIn comment: ", "AttributeError">>)
    ELSE Generate("generate_comment", TEMPERATURE,
                  [form |-> IF NonBlank(current_comment) = "true"
                            THEN "Refine the current comment"
                            ELSE "Write a single comment, include author's name",
                   author |-> post_author, content |-> post_text,
                   current_comment |-> NonBlank(current_comment) = "true",
                   refinement |-> NonBlank(refinement) = "true"],
                  " generating LinkedIn comment: ", o)

\* -------------------------------------------- generate_project_post: blocks
\* sep.join(parts) on strs
RECURSIVE Join(_, _)
Join(parts, sep) ==
    IF parts = <<>> THEN <<>>
    ELSE IF Len(parts) = 1 THEN parts[1]
    ELSE parts[1] \o sep \o Join(Tail(parts), sep)

\* Characters of a tag: c.isalnum(), c.isspace(), or neither.
AlnumChars == {"a"}
OtherChars == {"!"}

IsAlnumOrSpace(c) == c \in AlnumChars \/ c \in Whitespace
IsNotSpace(c) == c \notin Whitespace

\* ''.join(c for c in tag if c.isalnum() or c.isspace()).strip(); ''.join(clean_tag.split())
CleanTag(tag) == SelectSeq(Strip(SelectSeq(tag, IsAlnumOrSpace)), IsNotSpace)

RECURSIVE Hashtags(_)
Hashtags(tags) ==
    IF tags = <<>> THEN <<>>
    ELSE LET clean_tag == CleanTag(Head(tags))
         IN  (IF clean_tag # <<>> THEN << <<"#">> \o clean_tag >> ELSE <<>>)
             \o Hashtags(Tail(tags))

DefaultTagsText == <<"#", "SundaiClub", " ", "#", "Innovation", " ", "#", "TechProject">>

\* tags is a ListVal of kind "absent" (get's default []), "null" or "list"
TagsText(tags) ==
    IF tags.kind = "list" /\ Len(tags.items) > 0
    THEN Join(Hashtags(tags.items), <<" ">>)
    ELSE DefaultTagsText

\* the team attribution with the plural label for any number of members
TeamText_AlwaysPlural(team_lead, team_members) ==
    LET lead == IF team_lead # Absent /\ PyTruthy(team_lead)
                THEN << <<"Team Lead: ", team_lead>> >> ELSE <<>>
        members ==
            IF team_members.kind = "list" /\ Len(team_members.items) > 0
            THEN << <<"Team Members: ">>
                    \o Join([i \in DOMAIN team_members.items |-> <<team_members.items[i]>>],
                            <<", ">>) >>
            ELSE <<>>
        team_info == lead \o members
    IN  IF team_info # <<>> THEN Join(team_info, <<" | ">>) ELSE <<"Individual project">>

\* team_members is a ListVal of kind "absent", "null" or "list"
TeamText(team_lead, team_members) ==
    LET lead == IF team_lead # Absent /\ PyTruthy(team_lead)
                THEN << <<"Team Lead: ", team_lead>> >> ELSE <<>>
        members ==
            IF team_members.kind = "list" /\ Len(team_members.items) > 0
            THEN IF Len(team_members.items) = 1
                 THEN << <<"Team Member: ", team_members.items[1]>> >>
                 ELSE << <<"Team Members: ">>
                         \o Join([i \in DOMAIN team_members.items |-> <<team_members.items[i]>>],
                                 <<", ">>) >>
            ELSE <<>>
        team_info == lead \o members
    IN  IF team_info # <<>> THEN Join(team_info, <<" | ">>) ELSE <<"Individual project">>

LinksText(demo_url, github_url, blog_url) ==
    LET Link(label, url) ==
            IF url # Absent /\ PyTruthy(url) THEN << <<label, url>> >> ELSE <<>>
    IN  Join(Link("Demo: ", demo_url) \o Link("GitHub: ", github_url)
             \o Link("Blog: ", blog_url), <<"\n\n">>)

\* len(x) raises TypeError on a number
LenRaises(l) == l.kind = "number"

generate_project_post(project_data, o) ==
    IF ~KeyTruthy THEN Returns(KeyNotConfigured)
    ELSE LET v == project_data.val
             team_members == project_data.lists["team_members"]
             tags == project_data.lists["tags"]
         IN  IF LenRaises(team_members) \/ LenRaises(tags)
             THEN Returns(<<"Error", " generating project post: ", "TypeError">>)
             ELSE Generate("generate_project_post", TEMPERATURE,
                           [form |-> "PROJECT POST",
                            title |-> v["title"],
                            description |-> v["description"],
                            team_text |-> TeamText(v["team_lead"], team_members),
                            links_text |-> LinksText(v["demo_url"], v["github_url"],
                                                     v["blog_url"]),
                            tags_text |-> TagsText(tags)],
                           " generating project post: ", o)

\* ------------------------------------------------------ generation endpoints
Result(resp_, calls_) == [resp |-> resp_, calls |-> calls_]
Reject(resp_) == Result(resp_, <<>>)

NotJson == JsonError(400, <<"Request must be JSON">>)
MissingFields(missing) == JsonError(400, <<"Missing fields: ">> \o missing)

\* if generated.startswith("Error"): 500 {error}  else 200 {key: generated.strip()}
PostOrError(g) ==
    IF StartsWith(g.ret, ErrorPrefix)
    THEN Result(JsonError(500, g.ret), g.calls)
    ELSE Result(JsonText(Strip(g.ret)), g.calls)

generate_post_endpoint(data, o) ==
    IF data.kind = "notjson" THEN Reject(NotJson)
    ELSE IF ~Container(data) THEN Reject(Raise("TypeError"))
    ELSE IF ~Has(data, "context")
    THEN Reject(JsonError(400, <<"Missing '", "context", "' field">>))
    ELSE IF data.kind # "object" \/ ~Sliceable(data.val["context"])
    THEN Reject(Raise("TypeError"))
    ELSE PostOrError(generate_post(data.val["context"], o))

regenerate_post_endpoint(data, o) ==
    IF data.kind = "notjson" THEN Reject(NotJson)
    ELSE IF ~Container(data) THEN Reject(Raise("TypeError"))
    ELSE IF ~Has(data, "context")
    THEN Reject(JsonError(400, <<"Missing '", "context", "' field">>))
    ELSE IF data.kind # "object" \/ ~Sliceable(data.val["context"])
    THEN Reject(Raise("TypeError"))
    ELSE PostOrError(regenerate_post(data.val["context"], o))

\* [field for field in required_fields if field not in data]
Missing(data, required_fields) ==
    SelectSeq(required_fields, LAMBDA f : ~Has(data, f))

ModifyRequired == <<"context", "current_post", "action">>

\* modify_post_endpoint without its check of `action`
modify_post_endpoint_NoActionCheck(data, o) ==
    IF data.kind = "notjson" THEN Reject(NotJson)
    ELSE IF ~Container(data) THEN Reject(Raise("TypeError"))
    ELSE IF Missing(data, ModifyRequired) # <<>>
    THEN Reject(MissingFields(Missing(data, ModifyRequired)))
    ELSE IF data.kind # "object" THEN Reject(Raise("TypeError"))
    ELSE PostOrError(modify_post(data.val["current_post"], data.val["action"], o))

\* modify_post_endpoint letting through an action that modify_post does not know
modify_post_endpoint_AcceptsShorten(data, o) ==
    IF data.kind = "notjson" THEN Reject(NotJson)
    ELSE IF ~Container(data) THEN Reject(Raise("TypeError"))
    ELSE IF Missing(data, ModifyRequired) # <<>>
    THEN Reject(MissingFields(Missing(data, ModifyRequired)))
    ELSE IF data.kind # "object" THEN Reject(Raise("TypeError"))
    ELSE IF data.val["action"] \notin {"reduce", "elaborate", "shorten"}
    THEN Reject(JsonError(400, <<"Invalid action. Use 'reduce' or 'elaborate'.">>))
    ELSE PostOrError(modify_post(data.val["current_post"], data.val["action"], o))

modify_post_endpoint(data, o) ==
    IF data.kind = "notjson" THEN Reject(NotJson)
    ELSE IF ~Container(data) THEN Reject(Raise("TypeError"))
    ELSE IF Missing(data, ModifyRequired) # <<>>
    THEN Reject(MissingFields(Missing(data, ModifyRequired)))
    ELSE IF data.kind # "object" THEN Reject(Raise("TypeError"))
    ELSE IF data.val["action"] \notin {"reduce", "elaborate"}
    THEN Reject(JsonError(400, <<"Invalid action. Use 'reduce' or 'elaborate'.">>))
    ELSE PostOrError(modify_post(data.val["current_post"], data.val["action"], o))

CommentRequired == <<"post_text", "post_author">>

\* data.get(key, '')
Get(data, f) == IF data.val[f] = Absent THEN "" ELSE data.val[f]

generate_comment_endpoint(data, o) ==
    IF data.kind = "notjson" THEN Reject(NotJson)
    ELSE IF ~Container(data) THEN Reject(Raise("TypeError"))
    ELSE IF Missing(data, CommentRequired) # <<>>
    THEN Reject(MissingFields(Missing(data, CommentRequired)))
    ELSE IF data.kind # "object" THEN Reject(Raise("AttributeError"))
    ELSE PostOrError(generate_comment(data.val["post_text"], data.val["post_author"],
                                      Get(data, "refinement"),
                                      Get(data, "current_comment"), o))

\* generate_project_post_endpoint without its check of `title`
generate_project_post_endpoint_NoTitleCheck(data, o) ==
    IF data.kind = "notjson"
    THEN Reject([JsonError(400, <<"Request must be JSON">>) EXCEPT !.success = "false"])
    ELSE IF ~BodyTruthy(data)
    THEN Reject([JsonError(400, <<"No project data provided">>) EXCEPT !.success = "false"])
    ELSE IF data.kind # "object"
    THEN Reject([JsonError(500, <<"Failed to generate post: ", "AttributeError">>)
                 EXCEPT !.success = "false"])
    ELSE LET g == generate_project_post(data, o)
         IN  IF StartsWith(g.ret, ErrorPrefix)
             THEN Result([JsonError(500, g.ret) EXCEPT !.success = "false"], g.calls)
             ELSE Result([JsonText(Strip(g.ret)) EXCEPT !.success = "true",
                                                        !.info = data.val["title"]],
                         g.calls)

generate_project_post_endpoint(data, o) ==
    IF data.kind = "notjson"
    THEN Reject([JsonError(400, <<"Request must be JSON">>) EXCEPT !.success = "false"])
    ELSE IF ~BodyTruthy(data)
    THEN Reject([JsonError(400, <<"No project data provided">>) EXCEPT !.success = "false"])
    ELSE IF data.kind # "object"
    THEN Reject([JsonError(500, <<"Failed to generate post: ", "AttributeError">>)
                 EXCEPT !.success = "false"])
    ELSE IF ~PyTruthy(Get(data, "title"))
    THEN Reject([JsonError(400, <<"Project ", "title", " is required">>)
                 EXCEPT !.success = "false"])
    ELSE LET g == generate_project_post(data, o)
         IN  IF StartsWith(g.ret, ErrorPrefix)
             THEN Result([JsonError(500, g.ret) EXCEPT !.success = "false"], g.calls)
             ELSE Result([JsonText(Strip(g.ret)) EXCEPT !.success = "true",
                                                        !.info = data.val["title"]],
                         g.calls)

\* ------------------------------------------------------------------- store
(* A document of the collection: title is Absent, "" or a non-empty str;     *)
(* last_updated is absent, a str (its characters as code points, compared    *)
(* lexicographically) or a timestamp object (type "ts").  Python refuses to  *)
(* order a str against a timestamp.                                          *)
LuAbsent == [type |-> "absent", key |-> <<>>]
LuValues ==
    {LuAbsent, [type |-> "ts", key |-> <<1>>]}
    \cup {[type |-> "str", key |-> k] : k \in {<<1>>, <<1, 2>>, <<2>>}}
\* last_updated is read only from a titled document, so the untitled samples
\* carry just two of its values (one of them a timestamp among titled strs)
DocValues ==
    {[title |-> "Solar Car", last_updated |-> u] : u \in LuValues}
    \cup {[title |-> t, last_updated |-> u] :
             t \in {Absent, ""}, u \in {LuAbsent, [type |-> "ts", key |-> <<1>>]}}
DocSeqs == SeqsUpTo(DocValues, MaxDocs)

(* Outcome of iterating collection(...).stream(): "fault" (the store raises) *)
(* or "docs" with the documents in store iteration order.                    *)
StoreOutcomes == {[kind |-> "fault", docs |-> <<>>]} \cup {[kind |-> "docs", docs |-> d] : d \in DocSeqs}
NotRead == [kind |-> "notread", docs |-> <<>>]

StoreCallOn(client, op) ==
    [to |-> "store", op |-> op, collection |-> COLLECTION, client |-> client]
StoreCall(op) == StoreCallOn(db, op)

RECURSIVE LexLess(_, _)
\* a < b on strs
LexLess(a, b) ==
    IF b = <<>> THEN FALSE
    ELSE IF a = <<>> THEN TRUE
    ELSE IF Head(a) # Head(b) THEN Head(a) < Head(b)
    ELSE LexLess(Tail(a), Tail(b))

\* project_data.get('last_updated', '')
LastUpdated(u) == IF u.type = "absent" THEN [type |-> "str", key |-> <<>>] ELSE u

\* project_info of the i-th streamed document (doc.id is its store key)
ProjectInfo(docs, i) ==
    [id |-> i, title |-> docs[i].title, last_updated |-> LastUpdated(docs[i].last_updated)]

\* the title test checking presence only
HasTitle_PresentOnly(doc) == doc.title # Absent

\* if not project_data.get('title'): continue
HasTitle(doc) == doc.title # Absent /\ PyTruthy(doc.title)

RECURSIVE Collect(_, _)
\* the loop over docs: the projects list before sorting
Collect(docs, i) ==
    IF i > Len(docs) THEN <<>>
    ELSE (IF HasTitle(docs[i]) THEN <<ProjectInfo(docs, i)>> ELSE <<>>) \o Collect(docs, i + 1)

RECURSIVE InsertDesc(_, _)
\* x goes before the first element whose key is smaller: equal keys keep their order
InsertDesc(sorted, x) ==
    IF sorted = <<>> THEN <<x>>
    ELSE IF LexLess(Head(sorted).last_updated.key, x.last_updated.key) THEN <<x>> \o sorted
    ELSE <<Head(sorted)>> \o InsertDesc(Tail(sorted), x)

RECURSIVE SortPrefix(_, _)
SortPrefix(projects, n) ==
    IF n = 0 THEN <<>> ELSE InsertDesc(SortPrefix(projects, n - 1), projects[n])

RECURSIVE Reversed(_)
Reversed(q) == IF q = <<>> THEN <<>> ELSE Append(Reversed(Tail(q)), Head(q))

RECURSIVE InsertAsc(_, _)
InsertAsc(sorted, x) ==
    IF sorted = <<>> THEN <<x>>
    ELSE IF LexLess(x.last_updated.key, Head(sorted).last_updated.key) THEN <<x>> \o sorted
    ELSE <<Head(sorted)>> \o InsertAsc(Tail(sorted), x)

RECURSIVE SortAscPrefix(_, _)
SortAscPrefix(projects, n) ==
    IF n = 0 THEN <<>> ELSE InsertAsc(SortAscPrefix(projects, n - 1), projects[n])

\* the sort done as projects.sort(key=...) followed by projects.reverse()
SortDesc_SortThenReverse(projects) == Reversed(SortAscPrefix(projects, Len(projects)))

\* projects.sort(key=lambda x: x.get('last_updated', ''), reverse=True): stable
SortDesc(projects) == SortPrefix(projects, Len(projects))

\* list.sort raises TypeError when two keys are of different types
Comparable(projects) ==
    \A i, j \in DOMAIN projects : projects[i].last_updated.type = projects[j].last_updated.type

\* get_projects without its `if not db` check: db.collection raises on None
get_projects_NoDbCheck(s) ==
    IF db = 0
    THEN Reject([JsonError(500, <<"Database error: ", "AttributeError">>)
                 EXCEPT !.success = "false"])
    ELSE IF s.kind = "fault"
    THEN Result([JsonError(500, <<"Database error: ", "fault">>) EXCEPT !.success = "false"],
                <<StoreCall("stream")>>)
    ELSE LET projects == Collect(s.docs, 1)
         IN  IF ~Comparable(projects)
             THEN Result([JsonError(500, <<"Database error: ", "TypeError">>)
                          EXCEPT !.success = "false"], <<StoreCall("stream")>>)
             ELSE Result([NoResp EXCEPT !.status = 200, !.success = "true",
                                        !.projects = SortDesc(projects),
                                        !.count = Len(projects),
                                        !.info = firebase_connection_method],
                         <<StoreCall("stream")>>)

get_projects(s) ==
    IF db = 0
    THEN Reject([JsonError(503, <<"Firebase not configured.">>) EXCEPT !.success = "false"])
    ELSE IF s.kind = "fault"
    THEN Result([JsonError(500, <<"Database error: ", "fault">>) EXCEPT !.success = "false"],
                <<StoreCall("stream")>>)
    ELSE LET projects == Collect(s.docs, 1)
         IN  IF ~Comparable(projects)
             THEN Result([JsonError(500, <<"Database error: ", "TypeError">>)
                          EXCEPT !.success = "false"], <<StoreCall("stream")>>)
             ELSE Result([NoResp EXCEPT !.status = 200, !.success = "true",
                                        !.projects = SortDesc(projects),
                                        !.count = Len(projects),
                                        !.info = firebase_connection_method],
                         <<StoreCall("stream")>>)

\* ------------------------------------------------------- set_firebase_json
FirebaseRequired == <<"project_id", "private_key", "client_email">>
FirebaseFields == {"project_id", "private_key", "client_email"}

(* What the environment does to one /set_firebase_json request: the first   *)
(* library call that raises, if any.  get_json() raises only on a request    *)
(* that is not JSON (older framework versions return None instead).          *)
FirebaseSteps == <<"get_json", "Certificate", "initialize_app", "client", "stream">>
FirebaseEnvs == {"get_json", "Certificate", "initialize_app", "client", "stream", "none"}
NoEnv == "unused"

Outcome(resp_, calls_, apps_, appSeq_, db_, method_) ==
    [resp |-> resp_, calls |-> calls_, apps |-> apps_, appSeq |-> appSeq_, db |-> db_,
     method |-> method_]
\* a return that leaves the module globals and the registered app alone
Keep(resp_) == Outcome(resp_, <<>>, apps, appSeq, db, firebase_connection_method)

set_firebase_json(data, cfg, e) ==
    IF data.kind = "notjson" /\ e = "get_json"
    THEN Keep(JsonError(500, <<"UnsupportedMediaType">>))
    ELSE IF ~BodyTruthy(data)
    THEN Keep(JsonError(400, <<"Missing ", "firebase_config", " in request">>))
    ELSE IF ~Container(data) THEN Keep(JsonError(500, <<"TypeError">>))
    ELSE IF ~Has(data, "firebase_config")
    THEN Keep(JsonError(400, <<"Missing ", "firebase_config", " in request">>))
    ELSE IF data.kind # "object" \/ ~Container(cfg) THEN Keep(JsonError(500, <<"TypeError">>))
    ELSE IF Missing(cfg, FirebaseRequired) # <<>>
    THEN Keep(MissingFields(Missing(cfg, FirebaseRequired)))
    ELSE IF ~sdk THEN Keep(JsonError(500, <<"NameError">>))
    \* from here on the registered app, if any, has been deleted
    ELSE IF e = "Certificate"
    THEN Outcome(JsonError(500, <<"ValueError">>), <<>>, 0, appSeq, db,
                 firebase_connection_method)
    ELSE IF e = "initialize_app"
    THEN Outcome(JsonError(500, <<"ValueError">>), <<>>, 0, appSeq, db,
                 firebase_connection_method)
    ELSE IF e = "client"
    THEN Outcome(JsonError(500, <<"ValueError">>), <<>>, appSeq + 1, appSeq + 1, db,
                 firebase_connection_method)
    ELSE IF e = "stream"
    THEN Outcome(JsonError(500, <<"fault">>), <<StoreCallOn(appSeq + 1, "limit(1).stream")>>,
                 appSeq + 1, appSeq + 1, appSeq + 1, "Manual JSON upload")
    ELSE Outcome([NoResp EXCEPT !.status = 200, !.success = "true",
                                !.info = "Firebase configured successfully"],
                 <<StoreCallOn(appSeq + 1, "limit(1).stream")>>,
                 appSeq + 1, appSeq + 1, appSeq + 1, "Manual JSON upload")

\* ------------------------------------------------- read-only status endpoints
root == Reject([NoResp EXCEPT !.status = 200, !.info = "API is running"])

\* health_check reporting "connected" without looking at the outcome of the read
health_check_IgnoresFault(s) ==
    IF db = 0 THEN Reject([NoResp EXCEPT !.status = 200, !.info = "not_configured"])
    ELSE Result([NoResp EXCEPT !.status = 200, !.info = "connected"],
                <<StoreCall("limit(1).stream")>>)

health_check(s) ==
    IF db = 0 THEN Reject([NoResp EXCEPT !.status = 200, !.info = "not_configured"])
    ELSE Result([NoResp EXCEPT !.status = 200,
                               !.info = IF s.kind = "fault" THEN "connection_failed"
                                        ELSE "connected"],
                <<StoreCall("limit(1).stream")>>)

debug_firebase(s) ==
    Result([NoResp EXCEPT !.status = 200,
                          !.info = IF db = 0 THEN "no test"
                                   ELSE IF s.kind = "fault" THEN "collection_accessible: False"
                                   ELSE "collection_accessible: True"],
           IF db = 0 THEN <<>> ELSE <<StoreCall("limit(1).stream")>>)

\* model.generate_content("Test connection"): no generation_config is passed,
\* the provider applies its own temperature and length (-1)
ProviderDefault == [exp |-> 0, man |-> <<>>]
HealthProbe ==
    [to |-> "provider", fn |-> "projects_health", model |-> MODEL_NAME,
     temperature |-> ProviderDefault, max_output_tokens |-> -1,
     prompt |-> [form |-> "Test connection"]]

projects_health(s, o) ==
    LET firebase_connected == db # 0 /\ s.kind = "docs"
        gemini_connected == KeyTruthy /\ o.kind = "text" /\ o.text # <<>>
    IN  Result([NoResp EXCEPT !.status = 200, !.success = "true",
                              !.count = IF firebase_connected THEN Len(s.docs) ELSE 0,
                              !.info = IF firebase_connected
                                       THEN IF gemini_connected THEN "firebase+gemini"
                                            ELSE "firebase"
                                       ELSE IF gemini_connected THEN "gemini" ELSE "neither"],
               (IF db = 0 THEN <<>> ELSE <<StoreCall("stream")>>)
               \o (IF KeyTruthy THEN <<HealthProbe>> ELSE <<>>))

\* ------------------------------------------------------------ request bodies
ContextBodies ==
    NonObjectBodies({"context"})
    \cup {ObjectBody([f \in {"context"} |-> v]) :
            v \in {Absent, "null", "number", "array", "object", "", "Launch day"}}

ModifyBody(c, p, a) == ObjectBody([context |-> c, current_post |-> p, action |-> a])
ModifyBodies ==
    NonObjectBodies({"context", "current_post", "action"})
    \cup {ModifyBody("Launch day", p, a) :
            p \in {"We shipped.", "null"},
            a \in {Absent, "reduce", "elaborate", "shorten", "", "null", "number", "array"}}
    \cup {ModifyBody(c, p, a) :
            c \in {Absent, "Launch day"}, p \in {Absent, "We shipped."},
            a \in {Absent, "reduce", "shorten"}}

CommentBody(t, a, r, c) ==
    ObjectBody([post_text |-> t, post_author |-> a, refinement |-> r, current_comment |-> c])
CommentBodies ==
    NonObjectBodies({"post_text", "post_author"})
    \cup {CommentBody("We shipped.", "Ann", r, c) :
            r \in {Absent, "null", " ", "shorter", "number"},
            c \in {Absent, "null", "", " ", "Congrats!", "number"}}
    \cup {CommentBody(t, a, Absent, "Congrats!") :
            t \in {Absent, "We shipped."}, a \in {Absent, "Ann"}}

AbsentList == ListVal("absent", <<>>)

ProjectBody(title, team_lead, team_members, demo_url, tags, other) ==
    Body("object", {}, FALSE,
         [title |-> title, description |-> Absent, team_lead |-> team_lead,
          demo_url |-> demo_url, github_url |-> Absent, blog_url |-> Absent],
         other,
         [team_members |-> team_members, tags |-> tags])

\* tags values: the list is absent, null, a number, or a list of strs
TagSamples ==
    {AbsentList, ListVal("null", <<>>), ListVal("number", <<>>)}
    \cup {ListVal("list", t) :
            t \in {<<>>, << <<"a">> >>, << <<"!">> >>, << <<>>, <<" ">> >>,
                   << <<"a", "!", "a">>, <<"a", " ", "a">> >>,
                   << <<" ", "a">>, <<"!", "!">>, <<"a", " ">> >>}}

MemberSamples ==
    {AbsentList, ListVal("number", <<>>)}
    \cup {ListVal("list", m) : m \in {<<>>, <<"Bob">>, <<"Bob", "Cy">>, <<"Di", "Bob", "Cy">>}}

ProjectBodies ==
    NonObjectBodies({"title"})
    \cup {ProjectBody(t, Absent, AbsentList, Absent, g, o) :
            t \in {Absent, "", "null", "zero"},
            g \in {AbsentList, ListVal("list", << <<"a">> >>)},
            o \in BOOLEAN}
    \cup {ProjectBody(t, Absent, AbsentList, Absent, g, FALSE) :
            t \in {"Solar Car", "number"}, g \in TagSamples}
    \cup {ProjectBody("Solar Car", l, m, d, AbsentList, FALSE) :
            l \in {Absent, "", "Ann"}, m \in MemberSamples, d \in {Absent, "https://demo"}}

\* the value of data['firebase_config'] as a body of its own
CfgBodies ==
    {b \in NonObjectBodies(FirebaseFields) : b.kind # "notjson"}
    \cup {ObjectBody(v) : v \in [FirebaseFields -> {Absent, "value"}]}

NoBody == Body("none", {}, FALSE, NoVal({}), FALSE, NoLists)

\* the body {"firebase_config": cfg}
FirebaseBody(cfg) ==
    ObjectBody([f \in {"firebase_config"} |->
                  CASE cfg.kind = "object" -> "object"
                    [] cfg.kind = "array" -> IF cfg.nonempty THEN "array" ELSE "emptyarray"
                    [] cfg.kind = "number" -> IF cfg.nonempty THEN "number" ELSE "zero"
                    [] cfg.kind = "string" -> IF cfg.nonempty THEN "value" ELSE ""
                    [] OTHER -> "null"])

FirebaseRequests ==
    {[data |-> d, cfg |-> NoBody] : d \in NonObjectBodies({"firebase_config"})}
    \cup {[data |-> ObjectBody([f \in {"firebase_config"} |-> Absent]), cfg |-> NoBody]}
    \cup {[data |-> FirebaseBody(c), cfg |-> c] : c \in CfgBodies}

\* ============================================== requests handled concurrently
(* app.run() serves every request on a thread of its own, so the statements  *)
(* of one handler interleave with those of another.  Each thread runs one    *)
(* handler at a time, a statement that reads or writes a module global or    *)
(* the registry of store applications per step:                              *)
(*   /set_firebase_json (a request that passed validation), lines 289-312;   *)
(*   /                  (the two reads of lines 564-565);                    *)
(*   /get_projects      (the check of line 776, the read of lines 786-787).  *)
(* In these behaviours pc, req, resp and calls keep their initial values.    *)
Threads == {"t1", "t2"}
ThreadEndpoints == {"/set_firebase_json", "/", "/get_projects"}
IdleThread ==
    [pc |-> "idle", ep |-> "none", status |-> 0, exc |-> "none",
     seen_db |-> FALSE, seen_label |-> "unread", client |-> 0]

\* ---------------------------------------------------------------- start-up
(* The module globals after the start-up block (lines 33-264): the SDK       *)
(* import failed; no credential was obtained; a credential was obtained      *)
(* (which sets the label) and initialize_app raised, or firestore.client()   *)
(* raised, or both succeeded (whatever the connection test did).             *)
StartupMethods == {"JSON file: firebase-credentials.json", "Environment variables"}
Startup(sdk_, apps_, db_, method_) ==
    [sdk |-> sdk_, apps |-> apps_, appSeq |-> apps_, db |-> db_, method |-> method_]
StartupOutcomes ==
    {Startup(FALSE, 0, 0, "none"), Startup(TRUE, 0, 0, "none")}
    \cup {Startup(TRUE, 0, 0, m) : m \in StartupMethods}
    \cup {Startup(TRUE, 1, 0, m) : m \in StartupMethods}
    \cup {Startup(TRUE, 1, 1, m) : m \in StartupMethods}

(* The start-up block statement by statement.  What it reads is fixed for   *)
(* the run of the block: the credential files on disk, "absent", there with *)
(* credentials.Certificate raising on them ("unreadable") or "valid"; and   *)
(* the environment, os.getenv(var) being None ("unset"), '' or "set".       *)
\* json_file_paths, in the order of the loop of line 75
json_file_paths ==
    <<"firebase-credentials.json", "./firebase-credentials.json", "../firebase-credentials.json">>
required_env_vars == <<"FIREBASE_PROJECT_ID", "FIREBASE_PRIVATE_KEY", "FIREBASE_CLIENT_EMAIL">>
\* the block before its first statement, with the files and the environment it will read
NotBooted(files_, env_) ==
    [pc |-> "import", files |-> files_, env |-> env_, path |-> 1, attempt |-> 1,
     cred |-> "None", log |-> <<>>, test |-> "none", exc |-> "none"]

\* os.environ.get("GEMINI_API_KEY"): unset, set to the empty str, or set
KeyValues == {"None", "", "AIza"}

NoReq ==
    [ep |-> "none", data |-> NoBody, cfg |-> NoBody, provider |-> NotCalled,
     store |-> NotRead, env |-> NoEnv]

Init ==
    /\ GEMINI_API_KEY \in KeyValues
    /\ \E s \in StartupOutcomes :
          /\ sdk = s.sdk
          /\ apps = s.apps
          /\ appSeq = s.appSeq
          /\ db = s.db
          /\ firebase_connection_method = s.method
    /\ pc = "idle"
    /\ req = NoReq
    /\ resp = NoResp
    /\ calls = <<>>
    /\ threads = [t \in Threads |-> IdleThread]
    \* the block has run; a request handler reads none of its locals
    /\ boot = [NotBooted([f \in {"cwd", "parent"} |-> "absent"],
                         [v \in {required_env_vars[i] : i \in DOMAIN required_env_vars}
                            |-> "unset"]) EXCEPT !.pc = "done"]

\* ------------------------------------------------------------------ actions
Called(calls_, to) == \E i \in DOMAIN calls_ : calls_[i].to = to

(* The environment answers only the calls a handler makes: the provider and  *)
(* store outcomes of a request range over all outcomes when the handler      *)
(* makes the call, and are NotCalled / NotRead when it does not.             *)
ProviderChoices(r) == IF Called(r.calls, "provider") THEN ProviderOutcomes ELSE {NotCalled}
StoreChoices(r) == IF Called(r.calls, "store") THEN StoreOutcomes ELSE {NotRead}
\* the status endpoints read the documents only to count them
ProbeOutcomes ==
    {t \in StoreOutcomes :
        \A i \in DOMAIN t.docs : t.docs[i] = [title |-> "Solar Car", last_updated |-> LuAbsent]}
ProbeChoices(r) == IF Called(r.calls, "store") THEN ProbeOutcomes ELSE {NotRead}

\* One request handled from arrival to the handler's return.
Handle(ep, data, cfg, o, s, e, r) ==
    /\ pc' = "responded"
    /\ req' = [ep |-> ep, data |-> data, cfg |-> cfg, provider |-> o, store |-> s, env |-> e]
    /\ resp' = r.resp
    /\ calls' = r.calls
    /\ UNCHANGED <<threads, boot>>

GeneratePost ==
    /\ pc = "idle"
    /\ \E data \in ContextBodies :
         \E o \in ProviderChoices(generate_post_endpoint(data, NotCalled)) :
            Handle("/generate_post", data, NoBody, o, NotRead, NoEnv,
                   generate_post_endpoint(data, o))
    /\ UNCHANGED config

RegeneratePost ==
    /\ pc = "idle"
    /\ \E data \in ContextBodies :
         \E o \in ProviderChoices(regenerate_post_endpoint(data, NotCalled)) :
            Handle("/regenerate_post", data, NoBody, o, NotRead, NoEnv,
                   regenerate_post_endpoint(data, o))
    /\ UNCHANGED config

ModifyPost ==
    /\ pc = "idle"
    /\ \E data \in ModifyBodies :
         \E o \in ProviderChoices(modify_post_endpoint(data, NotCalled)) :
            Handle("/modify_post", data, NoBody, o, NotRead, NoEnv,
                   modify_post_endpoint(data, o))
    /\ UNCHANGED config

GenerateComment ==
    /\ pc = "idle"
    /\ \E data \in CommentBodies :
         \E o \in ProviderChoices(generate_comment_endpoint(data, NotCalled)) :
            Handle("/generate_comment", data, NoBody, o, NotRead, NoEnv,
                   generate_comment_endpoint(data, o))
    /\ UNCHANGED config

GenerateProjectPost ==
    /\ pc = "idle"
    /\ \E data \in ProjectBodies :
         \E o \in ProviderChoices(generate_project_post_endpoint(data, NotCalled)) :
            Handle("/generate_project_post", data, NoBody, o, NotRead, NoEnv,
                   generate_project_post_endpoint(data, o))
    /\ UNCHANGED config

\* /get_projects giving up the store handle when the read fails
GetProjects_DropsHandleOnFault ==
    /\ pc = "idle"
    /\ \E s \in StoreChoices(get_projects(NotRead)) :
          /\ Handle("/get_projects", NoBody, NoBody, NotCalled, s, NoEnv, get_projects(s))
          /\ db' = IF s.kind = "fault" THEN 0 ELSE db
    /\ UNCHANGED <<GEMINI_API_KEY, sdk, apps, appSeq, firebase_connection_method>>

GetProjects ==
    /\ pc = "idle"
    /\ \E s \in StoreChoices(get_projects(NotRead)) :
            Handle("/get_projects", NoBody, NoBody, NotCalled, s, NoEnv, get_projects(s))
    /\ UNCHANGED config

\* the library calls a request reaches: none when validation rejects it;
\* credentials.Certificate raises on a config that is no JSON object
FirebaseChoices(r) ==
    IF r.data.kind = "notjson" THEN {"get_json", "none"}
    ELSE IF set_firebase_json(r.data, r.cfg, "Certificate").resp.status = 500
            /\ set_firebase_json(r.data, r.cfg, "none").resp.status = 200
    THEN IF r.cfg.kind = "object" THEN FirebaseEnvs \ {"get_json"} ELSE {"Certificate"}
    ELSE {"none"}

SetFirebaseJson ==
    /\ pc = "idle"
    /\ \E r \in FirebaseRequests :
         \E e \in FirebaseChoices(r) :
            LET res == set_firebase_json(r.data, r.cfg, e)
            IN  /\ res.appSeq <= MaxApps
                /\ Handle("/set_firebase_json", r.data, r.cfg, NotCalled, NotRead, e, res)
                /\ apps' = res.apps
                /\ appSeq' = res.appSeq
                /\ db' = res.db
                /\ firebase_connection_method' = res.method
    /\ UNCHANGED <<GEMINI_API_KEY, sdk>>

Root ==
    /\ pc = "idle"
    /\ Handle("/", NoBody, NoBody, NotCalled, NotRead, NoEnv, root)
    /\ UNCHANGED config

HealthCheck ==
    /\ pc = "idle"
    /\ \E s \in ProbeChoices(health_check(NotRead)) :
            Handle("/health", NoBody, NoBody, NotCalled, s, NoEnv, health_check(s))
    /\ UNCHANGED config

DebugFirebase ==
    /\ pc = "idle"
    /\ \E s \in ProbeChoices(debug_firebase(NotRead)) :
            Handle("/debug_firebase", NoBody, NoBody, NotCalled, s, NoEnv, debug_firebase(s))
    /\ UNCHANGED config

ProjectsHealth ==
    /\ pc = "idle"
    /\ \E s \in ProbeChoices(projects_health(NotRead, NotCalled)) :
         \E o \in ProviderChoices(projects_health(NotRead, NotCalled)) :
            Handle("/projects_health", NoBody, NoBody, o, s, NoEnv, projects_health(s, o))
    /\ UNCHANGED config

\* the framework sends the response; the worker takes the next request
Deliver ==
    /\ pc = "responded"
    /\ pc' = "idle"
    /\ req' = NoReq
    /\ resp' = NoResp
    /\ calls' = <<>>
    /\ UNCHANGED <<config, threads, boot>>

Next ==
    \/ GeneratePost
    \/ RegeneratePost
    \/ ModifyPost
    \/ GenerateComment
    \/ GenerateProjectPost
    \/ GetProjects
    \/ SetFirebaseJson
    \/ Root
    \/ HealthCheck
    \/ DebugFirebase
    \/ ProjectsHealth
    \/ Deliver

Spec == Init /\ [][Next]_vars

\* ------------------------------------------- the steps of a concurrent request
At(t, ep, pc_) == threads[t].ep = ep /\ threads[t].pc = pc_
Goto(t, pc_) == threads' = [threads EXCEPT ![t].pc = pc_]
\* the handler returns: the except branch of line 311 answers 500
Return(t, status, exc) ==
    threads' = [threads EXCEPT ![t].pc = "return", ![t].status = status, ![t].exc = exc]
Caught(t, exc) == Return(t, 500, exc)
Worker == <<pc, req, resp, calls>>

\* a request arrives and its handler starts
Begin(t) ==
    /\ threads[t].pc = "idle"
    /\ \E ep \in ThreadEndpoints :
          /\ ep = "/set_firebase_json" => sdk
          /\ threads' = [threads EXCEPT ![t] =
                           [IdleThread EXCEPT !.ep = ep,
                                              !.pc = CASE ep = "/set_firebase_json" -> "_apps"
                                                       [] ep = "/" -> "db is not None"
                                                       [] OTHER -> "if not db"]]
    /\ UNCHANGED <<config, Worker, boot>>

\* line 292: if firebase_admin._apps:
ReadApps(t) ==
    /\ At(t, "/set_firebase_json", "_apps")
    /\ Goto(t, IF apps # 0 THEN "delete_app" ELSE "Certificate")
    /\ UNCHANGED <<config, Worker, boot>>

\* delete_app that also drops the handle of the deleted app
DeleteApp_DropsHandle(t) ==
    /\ At(t, "/set_firebase_json", "delete_app")
    /\ IF apps = 0
       THEN Caught(t, "ValueError") /\ UNCHANGED <<apps, db>>
       ELSE Goto(t, "Certificate") /\ apps' = 0 /\ db' = 0
    /\ UNCHANGED <<GEMINI_API_KEY, sdk, appSeq, firebase_connection_method, Worker, boot>>

\* line 294: firebase_admin.delete_app(firebase_admin.get_app()); get_app raises
\* when the app has been deleted meanwhile; db is left as it is
DeleteApp(t) ==
    /\ At(t, "/set_firebase_json", "delete_app")
    /\ IF apps = 0
       THEN Caught(t, "ValueError") /\ UNCHANGED apps
       ELSE Goto(t, "Certificate") /\ apps' = 0
    /\ UNCHANGED <<GEMINI_API_KEY, sdk, appSeq, db, firebase_connection_method, Worker, boot>>

\* line 296: cred = credentials.Certificate(firebase_config)
Certificate(t) ==
    /\ At(t, "/set_firebase_json", "Certificate")
    /\ \/ Goto(t, "initialize_app")
       \/ Caught(t, "ValueError")
    /\ UNCHANGED <<config, Worker, boot>>

\* line 297: firebase_admin.initialize_app(cred); raises when a default app
\* is registered (by another request meanwhile) or on the library's own fault
InitializeApp(t) ==
    /\ At(t, "/set_firebase_json", "initialize_app")
    /\ \/ /\ apps = 0
          /\ appSeq < MaxApps
          /\ Goto(t, "client")
          /\ apps' = appSeq + 1
          /\ appSeq' = appSeq + 1
       \/ /\ Caught(t, "ValueError")
          /\ UNCHANGED <<apps, appSeq>>
    /\ UNCHANGED <<GEMINI_API_KEY, sdk, db, firebase_connection_method, Worker, boot>>

\* line 298: db = firestore.client(); raises when no default app is registered
AssignDb(t) ==
    /\ At(t, "/set_firebase_json", "client")
    /\ \/ /\ apps # 0
          /\ Goto(t, "label")
          /\ db' = apps
       \/ /\ Caught(t, "ValueError")
          /\ UNCHANGED db
    /\ UNCHANGED <<GEMINI_API_KEY, sdk, apps, appSeq, firebase_connection_method, Worker, boot>>

\* line 299: firebase_connection_method = "Manual JSON upload"
AssignLabel(t) ==
    /\ At(t, "/set_firebase_json", "label")
    /\ Goto(t, "stream")
    /\ firebase_connection_method' = "Manual JSON upload"
    /\ UNCHANGED <<GEMINI_API_KEY, sdk, apps, appSeq, db, Worker, boot>>

\* lines 302-309: the test read through the global db, then the success answer
TestRead(t) ==
    /\ At(t, "/set_firebase_json", "stream")
    /\ \/ threads' = [threads EXCEPT ![t].pc = "return", ![t].status = 200, ![t].client = db]
       \/ threads' = [threads EXCEPT ![t].pc = "return", ![t].status = 500,
                                     ![t].exc = "fault", ![t].client = db]
    /\ UNCHANGED <<config, Worker, boot>>

\* line 564: "firebase_configured": db is not None
RootReadDb(t) ==
    /\ At(t, "/", "db is not None")
    /\ threads' = [threads EXCEPT ![t].pc = "firebase_connection_method",
                                  ![t].seen_db = db # 0]
    /\ UNCHANGED <<config, Worker, boot>>

\* line 565: "firebase_connection": firebase_connection_method
RootReadLabel(t) ==
    /\ At(t, "/", "firebase_connection_method")
    /\ threads' = [threads EXCEPT ![t].pc = "return", ![t].status = 200,
                                  ![t].seen_label = firebase_connection_method]
    /\ UNCHANGED <<config, Worker, boot>>

\* lines 776-781: if not db: return ... 503
CheckDb(t) ==
    /\ At(t, "/get_projects", "if not db")
    /\ IF db = 0 THEN Return(t, 503, "none") ELSE Goto(t, "stream")
    /\ UNCHANGED <<config, Worker, boot>>

\* lines 786-787: db.collection('sundai_projects').stream(); an unset handle
\* has no attribute `collection`
StreamProjects(t) ==
    /\ At(t, "/get_projects", "stream")
    /\ IF db = 0
       THEN Caught(t, "AttributeError")
       ELSE \/ threads' = [threads EXCEPT ![t].pc = "return", ![t].status = 200,
                                          ![t].client = db]
            \/ threads' = [threads EXCEPT ![t].pc = "return", ![t].status = 500,
                                          ![t].exc = "fault", ![t].client = db]
    /\ UNCHANGED <<config, Worker, boot>>

\* the framework sends the response; the thread ends
Respond(t) ==
    /\ threads[t].pc = "return"
    /\ threads' = [threads EXCEPT ![t] = IdleThread]
    /\ UNCHANGED <<config, Worker, boot>>

NextThreads ==
    \E t \in Threads :
        \/ Begin(t)
        \/ ReadApps(t)
        \/ DeleteApp(t)
        \/ Certificate(t)
        \/ InitializeApp(t)
        \/ AssignDb(t)
        \/ AssignLabel(t)
        \/ TestRead(t)
        \/ RootReadDb(t)
        \/ RootReadLabel(t)
        \/ CheckDb(t)
        \/ StreamProjects(t)
        \/ Respond(t)

SpecThreads == Init /\ [][NextThreads]_vars

\* ================================================= start-up, statement by statement
(* The block of lines 37-264 runs once, before any request is served.  Its  *)
(* position is boot.pc; boot.log keeps, in order, every credential source   *)
(* the block examined and what came of it (the block logs each of them).    *)
\* missing_vars counting only the variables that are not set at all
missing_vars_UnsetOnly(env) == SelectSeq(required_env_vars, LAMBDA var : env[var] = "unset")

\* missing_vars = [var for var in required_env_vars if not os.getenv(var)]
missing_vars(env) == SelectSeq(required_env_vars, LAMBDA var : env[var] # "set")

Logged(source, result) == Append(boot.log, [source |-> source, result |-> result])

\* import firebase_admin (lines 38-40), then `if not firebase_admin._apps` (line 64)
StartupImport ==
    /\ boot.pc = "import"
    /\ \E o \in {"ok", "ImportError", "Exception"} :
          IF o = "ok"
          THEN /\ sdk' = TRUE
               /\ boot' = [boot EXCEPT !.pc = IF apps = 0 THEN "files" ELSE "done"]
          \* `except ImportError` and `except Exception` (lines 257, 260) log the
          \* exception and the module goes on; any other class would end the process
          ELSE /\ sdk' = FALSE
               /\ boot' = [boot EXCEPT !.pc = IF o \in {"ImportError", "Exception"}
                                                THEN "done" ELSE "aborted",
                                        !.exc = o]
    /\ UNCHANGED <<GEMINI_API_KEY, apps, appSeq, db, firebase_connection_method, Worker, threads>>

\* one turn of `for json_path in json_file_paths` (lines 75-85)
StartupFile ==
    /\ boot.pc = "files"
    /\ LET json_path == json_file_paths[boot.path]
           \* the first two paths name the same file of the working directory
           found == boot.files[IF boot.path = 3 THEN "parent" ELSE "cwd"]
           \* f"JSON file: {json_path}"
           method == CASE boot.path = 1 -> "JSON file: firebase-credentials.json"
                       [] boot.path = 2 -> "JSON file: ./firebase-credentials.json"
                       [] OTHER -> "JSON file: ../firebase-credentials.json"
           \* the next turn of the loop, or `if not cred` (line 88) after the last one
           on == IF boot.path < Len(json_file_paths)
                 THEN [boot EXCEPT !.path = boot.path + 1]
                 ELSE [boot EXCEPT !.pc = "env"]
       IN  CASE found = "absent" ->
                  /\ boot' = [on EXCEPT !.log = Logged(json_path, "absent")]
                  /\ UNCHANGED firebase_connection_method
             [] found = "unreadable" ->
                  /\ boot' = [on EXCEPT !.log = Logged(json_path, "failed")]
                  /\ UNCHANGED firebase_connection_method
             [] OTHER ->
                  \* break: cred is set, line 88 skips the environment
                  /\ boot' = [boot EXCEPT !.pc = "init", !.cred = json_path,
                                          !.log = Logged(json_path, "loaded")]
                  /\ firebase_connection_method' = method
    /\ UNCHANGED <<GEMINI_API_KEY, sdk, apps, appSeq, db, Worker, threads>>

\* `if not cred` was true: the required variables are looked up (lines 88-100)
StartupEnv ==
    /\ boot.pc = "env"
    /\ boot' = [boot EXCEPT !.pc = IF missing_vars(boot.env) # <<>> THEN "init" ELSE "key"]
    /\ UNCHANGED <<config, Worker, threads>>

\* credentials.Certificate(firebase_config) on the cleaned private key (lines 103-193):
\* it returns, or raises with or without "private_key" in its message
StartupCertificate ==
    /\ boot.pc = "key"
    /\ \E o \in {"ok", "private_key", "other"} :
          CASE o = "ok" ->
                 /\ boot' = [boot EXCEPT !.pc = "init", !.cred = "firebase_config",
                                         !.log = Logged("environment", "loaded")]
                 /\ firebase_connection_method' = "Environment variables"
            [] o = "private_key" ->
                 /\ boot' = [boot EXCEPT !.pc = "attempts", !.attempt = 1,
                                         !.log = Logged("environment", "failed")]
                 /\ UNCHANGED firebase_connection_method
            [] OTHER ->
                 /\ boot' = [boot EXCEPT !.pc = "init", !.log = Logged("environment", "failed")]
                 /\ UNCHANGED firebase_connection_method
    /\ UNCHANGED <<GEMINI_API_KEY, sdk, apps, appSeq, db, Worker, threads>>

\* one turn of `for i, attempt in enumerate(attempts)` (lines 208-219)
StartupAttempt ==
    /\ boot.pc = "attempts"
    /\ \E ok \in BOOLEAN :
          IF ok
          THEN /\ boot' = [boot EXCEPT !.pc = "init", !.cred = "test_config",
                                       !.log = Logged("environment", "loaded")]
               \* f"Environment variables (attempt {i+1})"
               /\ firebase_connection_method' =
                      CASE boot.attempt = 1 -> "Environment variables (attempt 1)"
                        [] boot.attempt = 2 -> "Environment variables (attempt 2)"
                        [] OTHER -> "Environment variables (attempt 3)"
          ELSE /\ boot' = [boot EXCEPT !.pc = IF boot.attempt < 3 THEN "attempts" ELSE "init",
                                       !.attempt = IF boot.attempt < 3 THEN boot.attempt + 1
                                                   ELSE boot.attempt,
                                       !.log = Logged("environment", "failed")]
               /\ UNCHANGED firebase_connection_method
    /\ UNCHANGED <<GEMINI_API_KEY, sdk, apps, appSeq, db, Worker, threads>>

\* `if cred:` firebase_admin.initialize_app(cred) (lines 227-230), else lines 253-255;
\* an exception is caught at line 247
StartupInitializeApp ==
    /\ boot.pc = "init"
    /\ IF boot.cred = "None"
       THEN /\ boot' = [boot EXCEPT !.pc = "done"]
            /\ UNCHANGED <<apps, appSeq>>
       ELSE \E ok \in BOOLEAN :
               IF ok
               THEN /\ apps' = appSeq + 1
                    /\ appSeq' = appSeq + 1
                    /\ boot' = [boot EXCEPT !.pc = "client"]
               ELSE /\ boot' = [boot EXCEPT !.pc = "done", !.exc = "caught"]
                    /\ UNCHANGED <<apps, appSeq>>
    /\ UNCHANGED <<GEMINI_API_KEY, sdk, db, firebase_connection_method, Worker, threads>>

\* db = firestore.client() (line 231)
StartupClient ==
    /\ boot.pc = "client"
    /\ \E ok \in BOOLEAN :
          IF ok
          THEN /\ db' = apps
               /\ boot' = [boot EXCEPT !.pc = "test"]
          ELSE /\ boot' = [boot EXCEPT !.pc = "done", !.exc = "caught"]
               /\ UNCHANGED db
    /\ UNCHANGED <<GEMINI_API_KEY, sdk, apps, appSeq, firebase_connection_method, Worker, threads>>

\* the connection test (lines 236-245); line 247 catches its exception
StartupTest ==
    /\ boot.pc = "test"
    /\ \E ok \in BOOLEAN :
          boot' = [boot EXCEPT !.pc = "done", !.test = IF ok THEN "passed" ELSE "failed",
                               !.exc = IF ok THEN boot.exc ELSE "caught"]
    /\ UNCHANGED <<config, Worker, threads>>

\* lines 33-35: db = None, firebase_connection_method = "none"
InitStartup ==
    /\ GEMINI_API_KEY \in KeyValues
    /\ sdk = FALSE
    /\ apps = 0
    /\ appSeq = 0
    /\ db = 0
    /\ firebase_connection_method = "none"
    /\ pc = "idle"
    /\ req = NoReq
    /\ resp = NoResp
    /\ calls = <<>>
    /\ threads = [t \in Threads |-> IdleThread]
    /\ \E files \in [{"cwd", "parent"} -> {"absent", "unreadable", "valid"}],
          env \in [{required_env_vars[i] : i \in DOMAIN required_env_vars}
                     -> {"unset", "empty", "set"}] :
          boot = NotBooted(files, env)

NextStartup ==
    \/ StartupImport
    \/ StartupFile
    \/ StartupEnv
    \/ StartupCertificate
    \/ StartupAttempt
    \/ StartupInitializeApp
    \/ StartupClient
    \/ StartupTest

SpecStartup == InitStartup /\ [][NextStartup]_vars

\* ===================================================================== claims
Responded(ep) == pc = "responded" /\ req.ep = ep

GenerationEndpoints ==
    {"/generate_post", "/regenerate_post", "/modify_post", "/generate_comment",
     "/generate_project_post"}
PostEndpoints == GenerationEndpoints \cup {"/set_firebase_json"}

\* the message mentions the field name
Names(msg, f) == \E i \in DOMAIN msg : msg[i] = f

RequiredOf(ep) ==
    CASE ep \in {"/generate_post", "/regenerate_post"} -> {"context"}
      [] ep = "/modify_post" -> {"context", "current_post", "action"}
      [] ep = "/generate_comment" -> {"post_text", "post_author"}
      [] ep = "/generate_project_post" -> {"title"}
      [] ep = "/set_firebase_json" -> {"firebase_config"}
      [] OTHER -> {}

\* the required fields a JSON request lacks (a body that is no object has none of them)
MissingOf(r) ==
    IF r.data.kind # "object" THEN RequiredOf(r.ep)
    ELSE {f \in RequiredOf(r.ep) : r.data.val[f] = Absent}
         \cup (IF r.ep = "/set_firebase_json" /\ r.data.val["firebase_config"] # Absent
               THEN IF r.cfg.kind = "object"
                    THEN {f \in FirebaseFields : r.cfg.val[f] = Absent}
                    ELSE FirebaseFields
               ELSE {})

\* a request the endpoint's contract accepts: a JSON object whose required
\* fields are non-empty strs, with a known action and well-typed optional fields
ValidRequest(r) ==
    /\ r.ep \in GenerationEndpoints
    /\ r.data.kind = "object"
    /\ \A f \in RequiredOf(r.ep) : IsStr(r.data.val[f]) /\ r.data.val[f] # ""
    /\ r.ep = "/modify_post" => r.data.val["action"] \in {"reduce", "elaborate"}
    /\ r.ep = "/generate_comment" =>
          \A f \in {"refinement", "current_comment"} :
              r.data.val[f] = Absent \/ IsStr(r.data.val[f])
    /\ r.ep = "/generate_project_post" =>
          \A f \in DOMAIN r.data.lists : r.data.lists[f].kind \in {"absent", "list"}

(* C1: whatever the request body and whatever fault the provider or the      *)
(* store raises, every handler returns a JSON response itself: no exception  *)
(* escapes to the framework, and a 4xx/5xx response carries an `error`.      *)
C1_NoExceptionEscapes ==
    pc = "responded" => ~resp.escaped /\ (resp.status >= 400 => resp.hasError)

(* C2: a JSON request to a POST endpoint that lacks at least one required    *)
(* field is answered 400 with an `error` naming every missing field.         *)
C2_MissingFieldIs400 ==
    (/\ pc = "responded"
     /\ req.ep \in PostEndpoints
     /\ req.data.kind # "notjson"
     /\ MissingOf(req) # {})
    => /\ ~resp.escaped
       /\ resp.status = 400
       /\ resp.hasError
       /\ \A f \in MissingOf(req) : Names(resp.error, f)

(* C3: a /modify_post request (a JSON object) whose `action` is not "reduce" *)
(* or "elaborate" is answered 400, whatever its other fields and whether or  *)
(* not the credential is configured, and the provider is not called.         *)
C3_InvalidActionIs400 ==
    (/\ Responded("/modify_post")
     /\ req.data.kind = "object"
     /\ req.data.val["action"] \notin {"reduce", "elaborate"})
    => /\ ~resp.escaped
       /\ resp.status = 400
       /\ resp.hasError
       /\ ~resp.hasText
       /\ calls = <<>>

C3_Witness ==
    /\ Responded("/modify_post")
    /\ KeyTruthy
    /\ req.data.kind = "object"
    /\ req.data.val["context"] = "Launch day"
    /\ req.data.val["current_post"] = "We shipped."
    /\ req.data.val["action"] = "shorten"
    /\ resp.status = 400

\* the title of a JSON-object body is absent or empty (falsy)
TitleMissing(r) == r.data.kind = "object" /\ ~PyTruthy(Get(r.data, "title"))

C5_Original ==
    (pc = "responded" /\ req.ep \in GenerationEndpoints /\ ~KeyTruthy /\ ~resp.escaped)
    => /\ resp.status = 500
       /\ resp.hasError
       /\ ~Called(calls, "provider")

(* C5 amended: with the credential unset no generation endpoint calls the    *)
(* provider or returns generated text; a request that passes the endpoint's  *)
(* validation gets the 500 structured error "Error: Gemini API key is not    *)
(* configured", and validation, which runs first, answers a JSON object that *)
(* lacks a required field with 400.                                          *)
C5_NoKeyNoCall ==
    (pc = "responded" /\ req.ep \in GenerationEndpoints /\ ~KeyTruthy)
    => /\ ~Called(calls, "provider")
       /\ ~resp.hasText
       /\ ~resp.escaped => resp.status \in {400, 500} /\ resp.hasError
       /\ ValidRequest(req) =>
             ~resp.escaped /\ resp.status = 500 /\ resp.error = KeyNotConfigured
       /\ (MissingOf(req) # {} /\ req.data.kind = "object")
             => ~resp.escaped /\ resp.status = 400

C5_Witness ==
    /\ Responded("/generate_post")
    /\ ~KeyTruthy
    /\ ValidRequest(req)
    /\ resp.status = 500
    /\ resp.error = KeyNotConfigured

(* C6: with the store handle unset /get_projects answers success:false with  *)
(* status 503 and makes no store call.                                       *)
C6_NoStoreIs503 ==
    (Responded("/get_projects") /\ db = 0)
    => /\ resp.status = 503
       /\ resp.success = "false"
       /\ resp.hasError
       /\ calls = <<>>

C6_Witness == Responded("/get_projects") /\ db = 0 /\ resp.status = 503

\* positions of the streamed documents that have a non-empty title
Titled(docs) == {i \in DOMAIN docs : docs[i].title \notin {Absent, ""}}
TypeOf(u) == IF u.type = "ts" THEN "ts" ELSE "str"

(* C7: every record of a successful /get_projects response has a non-empty   *)
(* title, the records are exactly the store's titled documents and `count`   *)
(* is their number; documents without a title are left out silently: when    *)
(* the store read succeeds and the titled documents can be ordered, the      *)
(* response is a success however many untitled documents there are.          *)
C7_TitledOnly ==
    Responded("/get_projects") =>
        /\ resp.success = "true" =>
              /\ \A i \in DOMAIN resp.projects : resp.projects[i].title \notin {Absent, ""}
              /\ {resp.projects[i].id : i \in DOMAIN resp.projects} = Titled(req.store.docs)
              /\ Len(resp.projects) = Cardinality(Titled(req.store.docs))
              /\ resp.count = Len(resp.projects)
        /\ (/\ req.store.kind = "docs"
            /\ \A i, j \in Titled(req.store.docs) :
                  TypeOf(req.store.docs[i].last_updated) = TypeOf(req.store.docs[j].last_updated))
           => resp.success = "true" /\ resp.status = 200 /\ ~resp.hasError

C7_Witness ==
    /\ Responded("/get_projects")
    /\ resp.success = "true"
    /\ Len(resp.projects) >= 1
    /\ \E i, j \in DOMAIN req.store.docs :
          req.store.docs[i].title = Absent /\ req.store.docs[j].title = ""

(* C8: the records of a successful /get_projects response are in descending  *)
(* order of last_updated, and records with equal last_updated (or both       *)
(* without one) keep the order in which the store iterated them.             *)
C8_SortedStable ==
    (Responded("/get_projects") /\ resp.success = "true") =>
        \A i, j \in DOMAIN resp.projects :
            i < j =>
              /\ ~LexLess(resp.projects[i].last_updated.key, resp.projects[j].last_updated.key)
              /\ resp.projects[i].last_updated.key = resp.projects[j].last_updated.key
                    => resp.projects[i].id < resp.projects[j].id

C8_Witness ==
    /\ Responded("/get_projects")
    /\ resp.success = "true"
    /\ Len(resp.projects) = 3
    /\ resp.projects[1].id = 3
    /\ resp.projects[2].id = 1
    /\ resp.projects[3].id = 2
    /\ req.store.docs[1].last_updated.type = "absent"
    /\ req.store.docs[2].last_updated.type = "absent"

\* the hashtag block the claim describes
ClaimedTagsText(tags) ==
    LET surviving == IF tags.kind = "list" THEN Hashtags(tags.items) ELSE <<>>
    IN  IF surviving = <<>> THEN DefaultTagsText ELSE Join(surviving, <<" ">>)

(* C9: the hashtag block of generate_project_post is, in input order, '#' +  *)
(* cleaned tag for every tag whose cleaned form is non-empty, and the three  *)
(* default hashtags whenever no tag survives cleaning (tags absent, empty,   *)
(* or every tag cleaning to empty).                                          *)
C9_HashtagBlock ==
    (Responded("/generate_project_post") /\ Called(calls, "provider"))
    => calls[1].prompt.tags_text = ClaimedTagsText(req.data.lists["tags"])

(* C10: for a valid request with the credential configured, a text T         *)
(* returned by the provider is answered as a success carrying T stripped of  *)
(* leading and trailing whitespace, for every T; the answer is a 500 only    *)
(* when the provider call raised or returned no text.                        *)
C10_TextIsSuccess ==
    (/\ pc = "responded"
     /\ req.ep \in GenerationEndpoints
     /\ ValidRequest(req)
     /\ KeyTruthy)
    => /\ req.provider.kind = "text" =>
             /\ ~resp.escaped
             /\ resp.status = 200
             /\ resp.hasText
             /\ resp.text = Strip(req.provider.text)
       /\ resp.status = 500 => req.provider.kind \in {"raise", "notext"}

\* number of outbound calls of the request to the provider / to the store
CallsTo(to) == Cardinality({i \in DOMAIN calls : calls[i].to = to})

(* C11: every request, on every endpoint and path, makes at most one         *)
(* outbound call to the provider and at most one outbound read of the store; *)
(* a call that failed is not made a second time within the request.          *)
C11_AtMostOneCall ==
    pc = "responded" =>
        /\ CallsTo("provider") <= 1
        /\ CallsTo("store") <= 1
        /\ Len(calls) <= 2
        /\ req.provider.kind \in {"raise", "notext"} => CallsTo("provider") = 1
        /\ req.store.kind = "fault" => CallsTo("store") = 1

C11_Witness ==
    /\ Responded("/projects_health")
    /\ req.provider.kind = "raise"
    /\ req.store.kind = "fault"
    /\ CallsTo("provider") = 1
    /\ CallsTo("store") = 1

(* C12: after start-up the store handle `db` and the label                   *)
(* firebase_connection_method are changed by no request handler other than   *)
(* /set_firebase_json: every step that handles a request of another endpoint *)
(* (on any path, its error paths included) or delivers a response leaves     *)
(* both as they were.                                                        *)
C12_OnlyReconfigurationWrites ==
    [][req'.ep # "/set_firebase_json"
          => (db' = db /\ firebase_connection_method' = firebase_connection_method)]_vars

C12_Witness ==
    /\ Responded("/get_projects")
    /\ req.store.kind = "fault"
    /\ resp.status = 500
    /\ db # 0
    /\ firebase_connection_method = "Manual JSON upload"

\* the provider call of the request, when it made one through a generator function
GeneratorCall == calls[1]
MadeGeneratorCall ==
    pc = "responded" /\ req.ep \in GenerationEndpoints /\ Called(calls, "provider")

(* C13 as stated: regenerate_post calls the provider with a temperature      *)
(* exactly 0.2 above generate_post's, 0.9 against 0.7, and with the same     *)
(* maximum output length of 1024 tokens; the other generator functions use   *)
(* 0.7 and 1024.                                                             *)
C13_Original ==
    MadeGeneratorCall =>
        /\ GeneratorCall.max_output_tokens = 1024
        /\ GeneratorCall.temperature =
              IF req.ep = "/regenerate_post" THEN Float(9, 10) ELSE Float(7, 10)

(* C13 amended: regenerate_post calls the provider with the float sum        *)
(* 0.7 + 0.2, which is 0.8999999999999999: above generate_post's 0.7, one    *)
(* unit in the last place below the float 0.9 and not equal to it; the       *)
(* maximum output length is the same 1024 tokens, and the other generator    *)
(* functions use the temperature 0.7 and the length 1024.                    *)
C13_RaisedTemperature ==
    MadeGeneratorCall =>
        /\ GeneratorCall.max_output_tokens = 1024
        /\ req.ep # "/regenerate_post" => GeneratorCall.temperature = Float(7, 10)
        /\ req.ep = "/regenerate_post" =>
              /\ GeneratorCall.temperature # Float(9, 10)
              /\ GeneratorCall.temperature.exp = Float(9, 10).exp
              /\ Inc(GeneratorCall.temperature.man) = Float(9, 10).man

C13_Witness ==
    /\ Responded("/regenerate_post")
    /\ Called(calls, "provider")
    /\ calls[1].fn = "regenerate_post"
    /\ calls[1].temperature # TEMPERATURE
    /\ resp.status = 200

(* C14: /health always answers 200 and classifies the store as exactly one   *)
(* of three values: "not_configured" iff the store handle is unset (and then *)
(* no store call is made), "connected" iff the handle is set and the single  *)
(* live round-trip succeeds, "connection_failed" iff the handle is set and   *)
(* the round-trip raises.                                                    *)
C14_HealthClassification ==
    Responded("/health") =>
        /\ ~resp.escaped
        /\ resp.status = 200
        /\ ~resp.hasError
        /\ resp.info \in {"not_configured", "connected", "connection_failed"}
        /\ resp.info = "not_configured" <=> db = 0
        /\ db = 0 => calls = <<>>
        /\ db # 0 => calls = <<StoreCall("limit(1).stream")>>
        /\ resp.info = "connected" <=> (db # 0 /\ req.store.kind = "docs")
        /\ resp.info = "connection_failed" <=> (db # 0 /\ req.store.kind = "fault")

C14_Witness ==
    /\ Responded("/health")
    /\ db # 0
    /\ req.store.kind = "fault"
    /\ resp.info = "connection_failed"
    /\ resp.status = 200

\* the request carries a current comment / refinement instructions: a str
\* with a character that is not whitespace
GivenText(r, f) ==
    /\ r.data.val[f] \notin NonStr \cup {Absent}
    /\ r.data.val[f] \notin {"", " "}
\* the optional fields of the request are strs, null or absent
OptionalFieldsAreText(r) ==
    \A f \in {"refinement", "current_comment"} : r.data.val[f] \notin NonStr \ {"null"}

(* C15: generate_comment builds the refinement prompt (restating the current *)
(* comment and asking for a revised comment) if and only if current_comment  *)
(* is present and not blank; in every other case, a non-blank refinement     *)
(* without a current comment included, it builds the initial-comment prompt  *)
(* asking for a single comment that mentions the author by name.  (A prompt  *)
(* is built for every request whose optional fields are strs or absent.)     *)
C15_PromptChoice ==
    (/\ Responded("/generate_comment")
     /\ req.data.kind = "object"
     /\ MissingOf(req) = {}
     /\ KeyTruthy)
    => /\ OptionalFieldsAreText(req) => Called(calls, "provider")
       /\ Called(calls, "provider") =>
             /\ calls[1].fn = "generate_comment"
             /\ calls[1].prompt.author = req.data.val["post_author"]
             /\ calls[1].prompt.content = req.data.val["post_text"]
             /\ IF GivenText(req, "current_comment")
                THEN /\ calls[1].prompt.form = "Refine the current comment"
                     /\ calls[1].prompt.current_comment
                ELSE /\ calls[1].prompt.form = "Write a single comment, include author's name"
                     /\ ~calls[1].prompt.current_comment

C15_Witness ==
    /\ Responded("/generate_comment")
    /\ Called(calls, "provider")
    /\ GivenText(req, "refinement")
    /\ req.data.val["current_comment"] = Absent
    /\ calls[1].prompt.form = "Write a single comment, include author's name"
    /\ calls[1].prompt.refinement

\* the lead and the members a project request names
LeadOf(r) == r.data.val["team_lead"]
HasLead(r) == LeadOf(r) \notin {Absent, "", "null", "zero", "emptyarray"}
MembersOf(r) ==
    IF r.data.lists["team_members"].kind = "list"
    THEN r.data.lists["team_members"].items ELSE <<>>
\* m1, ", ", m2, ", ", ..., mn
Listed(ms) == [i \in 1..(2 * Len(ms) - 1) |-> IF i % 2 = 1 THEN ms[(i + 1) \div 2] ELSE ", "]
LeadPart(r) == IF HasLead(r) THEN <<"Team Lead: ", LeadOf(r)>> ELSE <<>>
MembersPart(r) ==
    IF Len(MembersOf(r)) = 0 THEN <<>>
    ELSE IF Len(MembersOf(r)) = 1 THEN <<"Team Member: ", MembersOf(r)[1]>>
    ELSE <<"Team Members: ">> \o Listed(MembersOf(r))

(* C16: the team attribution of generate_project_post names the lead when    *)
(* team_lead is non-empty and the members when team_members is non-empty,    *)
(* with the singular label "Team Member" for exactly one member and the      *)
(* plural "Team Members" with all members in input order for two or more;    *)
(* with neither a lead nor any member it is the fixed text for an individual *)
(* project.                                                                  *)
C16_TeamAttribution ==
    (Responded("/generate_project_post") /\ Called(calls, "provider"))
    => calls[1].prompt.team_text =
          IF HasLead(req) /\ MembersOf(req) # <<>>
          THEN LeadPart(req) \o <<" | ">> \o MembersPart(req)
          ELSE IF HasLead(req) THEN LeadPart(req)
          ELSE IF MembersOf(req) # <<>> THEN MembersPart(req)
          ELSE <<"Individual project">>

C16_Witness ==
    /\ Responded("/generate_project_post")
    /\ Called(calls, "provider")
    /\ ~HasLead(req)
    /\ Len(MembersOf(req)) = 3
    /\ calls[1].prompt.team_text = <<"Team Members: ", "Di", ", ", "Bob", ", ", "Cy">>

(* C17: /set_firebase_json is all-or-nothing: whenever it answers with a     *)
(* non-success response (400 or 500), the store handle `db`, the label       *)
(* firebase_connection_method and the registered store application are       *)
(* exactly what they were before the request.                                *)
C17_AllOrNothing ==
    [][(pc' = "responded" /\ req'.ep = "/set_firebase_json" /\ resp'.status \in {400, 500})
          => /\ db' = db
             /\ firebase_connection_method' = firebase_connection_method
             /\ apps' = apps]_vars

(* C18: in every reachable state, the intermediate states of a               *)
(* /set_firebase_json request interleaved with other requests included, a    *)
(* set store handle implies a connection-method label other than "none": no  *)
(* request observes db set together with firebase_connection_method "none".  *)
C18_HandleImpliesLabel ==
    /\ db # 0 => firebase_connection_method # "none"
    /\ \A t \in Threads :
          (At(t, "/", "return") /\ threads[t].seen_db) => threads[t].seen_label # "none"

\* a /get_projects request is past its `if not db` check
PassedCheck(t) == At(t, "/get_projects", "stream")
\* a reconfiguration is under way and has deleted the registered application
Reconfiguring(t) ==
    /\ threads[t].ep = "/set_firebase_json"
    /\ threads[t].pc \in {"Certificate", "initialize_app", "client"}

(* C19: the store handle is monotone: once db is set (at start-up or by      *)
(* /set_firebase_json) no interleaving of requests sets it back to unset, so *)
(* a /get_projects request that passed its `if not db` check never           *)
(* dereferences an unset handle, even while a reconfiguration runs.          *)
C19_HandleMonotone ==
    /\ [][db # 0 => db' # 0]_vars
    /\ [](\A t \in Threads :
             /\ PassedCheck(t) => db # 0
             /\ threads[t].ep = "/get_projects" => threads[t].exc # "AttributeError")

C19_Witness ==
    /\ PassedCheck("t1")
    /\ Reconfiguring("t2")
    /\ apps = 0
    /\ db # 0

(* C20: the text "Invalid action: ..." that modify_post returns for an       *)
(* unknown action is never sent to a client as a successful `post`: for      *)
(* every /modify_post request, a 200 response carries only text produced by  *)
(* the provider, and the request's action was "reduce" or "elaborate".       *)
C20_InvalidActionNeverAPost ==
    Responded("/modify_post") =>
        /\ resp.hasText => resp.status = 200
        /\ resp.status = 200 =>
              /\ resp.hasText
              /\ req.provider.kind = "text"
              /\ resp.text = Strip(req.provider.text)
              /\ Called(calls, "provider")
              /\ req.data.val["action"] \in {"reduce", "elaborate"}
        /\ ~(resp.hasText /\ Len(resp.text) >= 1 /\ resp.text[1] = "Invalid action: ")

C20_Witness ==
    /\ Responded("/modify_post")
    /\ resp.status = 200
    /\ req.data.val["action"] = "reduce"
    /\ req.provider.kind = "text"
    /\ resp.text = <<"ok">>

\* ---- C21
Examined(source) == \E i \in DOMAIN boot.log : boot.log[i].source = source
UsedEnvironment == Examined("environment")
\* every path is examined at its place in json_file_paths, the environment only after all of them
FilesFirstInOrder ==
    \A i \in DOMAIN boot.log :
        IF i <= Len(json_file_paths)
        THEN boot.log[i].source = json_file_paths[i]
        ELSE boot.log[i].source = "environment"
\* C21: start-up never ends the process; the store handle is set only when a
\* credential was obtained and the application initialised; the credential
\* files are examined in their fixed order before the environment variables;
\* the environment variables are used only when no file gave a credential and
\* project id, private key and client email are all set to a non-empty value;
\* a failed connection test leaves the handle set.
C21_Startup ==
    /\ boot.pc # "aborted"
    /\ db # 0 => (boot.cred # "None" /\ apps # 0)
    /\ FilesFirstInOrder
    /\ UsedEnvironment =>
          /\ \A f \in DOMAIN boot.files : boot.files[f] # "valid"
          /\ \A i \in DOMAIN boot.log : i <= Len(json_file_paths) => boot.log[i].result # "loaded"
          /\ \A i \in DOMAIN required_env_vars : boot.env[required_env_vars[i]] = "set"
    /\ boot.test = "failed" => db # 0
\* start-up ended after an unreadable file and a credential from the environment,
\* with the application initialised and the connection test failed
C21_Witness ==
    /\ boot.pc = "done"
    /\ boot.files["cwd"] = "unreadable"
    /\ boot.cred = "firebase_config"
    /\ boot.test = "failed"
    /\ db # 0

====
